---------------------------- MODULE Spec2Model ----------------------------
(***************************************************************************)
(* A model of domgen's element layer (src/dom/base_classes.py): the        *)
(* attribute transform, the node shapes with their construction / reset    *)
(* protocol, and the recursive serialiser.                                  *)
(*                                                                          *)
(* Text is modelled as a sequence of one-character strings, so that        *)
(* str.replace, json.dumps, str.join and textwrap.indent are computed      *)
(* character by character as Python computes them.  A dict is modelled as  *)
(* the sequence of its (key, value) entries in insertion order.            *)
(***************************************************************************)
EXTENDS Integers, Sequences, FiniteSets, TLC

VARIABLES
    tpc,        \* position of the direct caller of transform: "ready" | "done"
    tIn,        \* the mapping the caller passed to transform
    tAfter,     \* the caller's mapping as it is after the call
    tResult,    \* the mapping transform returned (<<>> when it raised)
    tExc,       \* the exception transform raised, or "none"
    pc,         \* the node under construction: "none" | "applied" | "bound"
    kind,       \* its shape: "Text" | "Container" | "Void" | "Group"
    kwargs,     \* the attributes the node was constructed with
    args,       \* the content sequence of the last construction or reset
    attributes, \* the node's `attributes` slot
    content,    \* the node's `content` slot
    exc,        \* the exception the last operation raised, or "none"
    applyCount, \* calls of apply_attributes on the node
    setCount,   \* calls of set_content on the node
    last        \* the last operation on the node, and the text it returned

tvars == <<tpc, tIn, tAfter, tResult, tExc>>
nvars == <<pc, kind, kwargs, args, attributes, content, exc, applyCount, setCount, last>>
vars == <<tpc, tIn, tAfter, tResult, tExc,
          pc, kind, kwargs, args, attributes, content, exc, applyCount, setCount, last>>

----------------------------------------------------------------------------
(* Bounds of the model. *)

\* longest generated attribute key
MaxKeyLen == 3
\* most ordinary entries of a generated attribute mapping
MaxAttrs == 3
\* most items of a content sequence
MaxContent == 2
\* most resets (calls) of one node
MaxCalls == 2

----------------------------------------------------------------------------
(* Python str operations. *)

StartsWith(s, p) == Len(s) >= Len(p) /\ SubSeq(s, 1, Len(p)) = p

\* s.replace(old, new), old non-empty: leftmost non-overlapping occurrences
RECURSIVE Replace(_, _, _)
Replace(s, old, new) ==
    IF Len(s) < Len(old) THEN s
    ELSE IF SubSeq(s, 1, Len(old)) = old
         THEN new \o Replace(SubSeq(s, Len(old) + 1, Len(s)), old, new)
         ELSE <<s[1]>> \o Replace(Tail(s), old, new)

\* sep.join(parts)
RECURSIVE Join(_, _)
Join(parts, sep) ==
    IF parts = <<>> THEN <<>>
    ELSE IF Len(parts) = 1 THEN parts[1]
    ELSE parts[1] \o sep \o Join(Tail(parts), sep)

----------------------------------------------------------------------------
(* Attribute values.  One record shape for every Python type a value may   *)
(* have: t names the type, and the field of that type holds the value.     *)

StrV(s)  == [t |-> "str",  s |-> s,    n |-> 0, l |-> <<>>, d |-> <<>>, c |-> {}]
IntV(n)  == [t |-> "int",  s |-> <<>>, n |-> n, l |-> <<>>, d |-> <<>>, c |-> {}]
BoolV(b) == [t |-> "bool", s |-> <<>>, n |-> IF b THEN 1 ELSE 0,
             l |-> <<>>, d |-> <<>>, c |-> {}]
NoneV    == [t |-> "none", s |-> <<>>, n |-> 0, l |-> <<>>, d |-> <<>>, c |-> {}]
\* a list of strings
ListV(l) == [t |-> "list", s |-> <<>>, n |-> 0, l |-> l, d |-> <<>>, c |-> {}]
\* a dict of strings to strings: the sequence of its <<key, value>> items
DictV(d) == [t |-> "dict", s |-> <<>>, n |-> 0, l |-> <<>>, d |-> d, c |-> {}]
\* a set of strings
SetV(c)  == [t |-> "set",  s |-> <<>>, n |-> 0, l |-> <<>>, d |-> <<>>, c |-> c]

\* Python truthiness of a value (`if classes:`, `if style:`)
Truthy(v) ==
    CASE v.t = "str"  -> v.s # <<>>
      [] v.t = "int"  -> v.n # 0
      [] v.t = "bool" -> v.n = 1
      [] v.t = "none" -> FALSE
      [] v.t = "list" -> v.l # <<>>
      [] v.t = "dict" -> v.d # <<>>
      [] v.t = "set"  -> v.c # {}

----------------------------------------------------------------------------
(* json.dumps *)

Digits == <<"0", "1", "2", "3", "4", "5", "6", "7", "8", "9">>

\* str(n) for n >= 0
RECURSIVE IntStr(_)
IntStr(n) == IF n < 10 THEN <<Digits[n + 1]>>
             ELSE IntStr(n \div 10) \o <<Digits[(n % 10) + 1]>>

\* the escape json.dumps writes for one character of a string
JsonEscapeChar(c) ==
    CASE c = "\"" -> <<"\\", "\"">>
      [] c = "\\" -> <<"\\", "\\">>
      [] c = "\n" -> <<"\\", "n">>
      [] OTHER    -> <<c>>

RECURSIVE JsonEscape(_)
JsonEscape(s) ==
    IF s = <<>> THEN <<>> ELSE JsonEscapeChar(s[1]) \o JsonEscape(Tail(s))

\* json.dumps(s) for a str s
JsonDumpsStr(s) == <<"\"">> \o JsonEscape(s) \o <<"\"">>

\* json.dumps(v) for a value that is not a str
JsonDumps(v) ==
    CASE v.t = "int"  -> IntStr(v.n)
      [] v.t = "bool" -> IF v.n = 1 THEN <<"t", "r", "u", "e">> ELSE <<"f", "a", "l", "s", "e">>
      [] v.t = "none" -> <<"n", "u", "l", "l">>
      [] v.t = "list" ->
            <<"[">> \o Join([i \in 1..Len(v.l) |-> JsonDumpsStr(v.l[i])], <<",", " ">>) \o <<"]">>

----------------------------------------------------------------------------
(* Python dict operations on a sequence of [k, v] entries. *)

Keys(d) == {d[i].k : i \in 1..Len(d)}

HasKey(d, k) == \E i \in 1..Len(d) : d[i].k = k

\* d[k], for a key d holds
Get(d, k) == d[CHOOSE i \in 1..Len(d) : d[i].k = k].v

\* d without key k
RECURSIVE Remove(_, _)
Remove(d, k) ==
    IF d = <<>> THEN <<>>
    ELSE IF d[1].k = k THEN Tail(d)
    ELSE <<d[1]>> \o Remove(Tail(d), k)

\* d[k] = v: in place when d holds k, else appended
Put(d, k, v) ==
    IF HasKey(d, k)
    THEN [i \in 1..Len(d) |-> IF d[i].k = k THEN [k |-> k, v |-> v] ELSE d[i]]
    ELSE Append(d, [k |-> k, v |-> v])

\* d.pop(k, default)
PopValue(d, k, default) == IF HasKey(d, k) THEN Get(d, k) ELSE default

----------------------------------------------------------------------------
(* transform (src/dom/base_classes.py, lines 10-68) *)

CLASSES == <<"c", "l", "a", "s", "s", "e", "s">>
CLASS   == <<"c", "l", "a", "s", "s">>
STYLE   == <<"s", "t", "y", "l", "e">>
COLOR   == <<"c", "o", "l", "o", "r">>
COLOUR  == <<"c", "o", "l", "o", "u", "r">>
DATA    == <<"d", "a", "t", "a", "-">>

\* a faulty variant of lines 35-37 that sets `class` whatever `classes` is
ClassNormaliseAlways(attrs, order) ==
    Put(Remove(attrs, CLASSES), CLASS, StrV(Join(order, <<" ">>)))

\* lines 35-37: pop `classes`; a truthy set becomes `class`.  `order` is the
\* order in which Python iterates the set classes - {""}.
ClassNormalise(attrs, order) ==
    LET classes == PopValue(attrs, CLASSES, SetV({}))
        popped  == Remove(attrs, CLASSES)
    IN  IF Truthy(classes)
        THEN Put(popped, CLASS, StrV(Join(order, <<" ">>)))
        ELSE popped

\* line 41: ";".join(key + ":" + value for key, value in style.items())
StyleText(d) == Join([i \in 1..Len(d) |-> d[i][1] \o <<":">> \o d[i][2]], <<";">>)

\* lines 38-42: pop `style`; a truthy one is put back as a string
StyleNormalise(attrs) ==
    LET style  == PopValue(attrs, STYLE, StrV(<<>>))
        popped == Remove(attrs, STYLE)
    IN  IF Truthy(style)
        THEN Put(popped, STYLE,
                 IF style.t = "dict" THEN StrV(StyleText(style.d)) ELSE style)
        ELSE popped

\* lines 46-48
UnnormalisedColour(key) ==
    IF StartsWith(key, DATA) THEN key ELSE Replace(key, COLOR, COLOUR)

\* a faulty variant of line 49 that drops no entry
SkippedNever(key, attrs) == FALSE

\* line 49: the entry is dropped in favour of its `colour` spelling
Skipped(key, attrs) ==
    key # UnnormalisedColour(key) /\ HasKey(attrs, UnnormalisedColour(key))

\* a faulty variant of lines 51-56 that JSON-encodes a str value twice
EncodeValueTwice(value) == JsonDumpsStr(JsonDumpsStr(Replace(value.s, <<"\"">>, <<"&", "q", "u", "o", "t", ";">>)))

\* lines 51-56
EncodeValue(value) ==
    LET text == IF value.t # "str" THEN JsonDumps(value) ELSE value.s
    IN  JsonDumpsStr(Replace(text, <<"\"">>, <<"&", "q", "u", "o", "t", ";">>))

\* line 58: key[-1] == "_" and key[-2] != "_" raises IndexError on a key
\* with no character, and on the key "_"
StripRaises(key) == key = <<>> \/ key = <<"_">>

\* lines 58-59
StripTrailing(key) ==
    IF key[Len(key)] = "_" /\ key[Len(key) - 1] # "_"
    THEN SubSeq(key, 1, Len(key) - 1)
    ELSE key

\* line 62
ConvertUnderscores(key) ==
    Replace(Replace(Replace(key, <<"_", "_">>, <<" ">>), <<"_">>, <<"-">>), <<" ">>, <<"_">>)

\* lines 65-66
RenameColour(key) ==
    IF ~StartsWith(key, DATA) THEN Replace(key, COLOUR, COLOR) ELSE key

\* lines 57-66: the key an entry is stored under
OutputKey(key) == RenameColour(ConvertUnderscores(StripTrailing(key)))

\* lines 43-67: the loop, from entry i on, with new_attributes = acc
RECURSIVE TransformLoop(_, _, _)
TransformLoop(attrs, i, acc) ==
    IF i > Len(attrs) THEN [exc |-> "none", result |-> acc]
    ELSE IF Skipped(attrs[i].k, attrs) THEN TransformLoop(attrs, i + 1, acc)
    ELSE IF StripRaises(attrs[i].k) THEN [exc |-> "IndexError", result |-> <<>>]
    ELSE TransformLoop(attrs, i + 1,
                       Put(acc, OutputKey(attrs[i].k), EncodeValue(attrs[i].v)))

\* lines 34-68: what the call leaves in the caller's mapping (attributes),
\* what it returns (result) and what it raises (exc)
Transform(attrs, order) ==
    LET normalised == StyleNormalise(ClassNormalise(attrs, order))
        loop       == TransformLoop(normalised, 1, <<>>)
    IN  [attributes |-> normalised, result |-> loop.result, exc |-> loop.exc]

\* the orders in which Python may iterate the set s
Orders(s) ==
    {o \in [1..Cardinality(s) -> s] : \A i, j \in 1..Cardinality(s) : i # j => o[i] # o[j]}

\* the orders of classes - {""} for a mapping (one, empty, without `classes`)
ClassOrders(attrs) == Orders(PopValue(attrs, CLASSES, SetV({})).c \ {<<>>})

----------------------------------------------------------------------------
(* Elements.  One record shape for every node shape, and for a raw string  *)
(* of a content sequence (kind "str").                                     *)

TextNode(s) ==
    [kind |-> "Text", tag |-> <<>>, attributes |-> <<>>, children |-> <<>>, text |-> s]
ContainerNode(tag, attrs, children) ==
    [kind |-> "Container", tag |-> tag, attributes |-> attrs,
     children |-> children, text |-> <<>>]
VoidNode(tag, attrs) ==
    [kind |-> "Void", tag |-> tag, attributes |-> attrs, children |-> <<>>, text |-> <<>>]
GroupNode(children) ==
    [kind |-> "Group", tag |-> <<>>, attributes |-> <<>>,
     children |-> children, text |-> <<>>]
\* a Component: its one child is its composition root
ComponentNode(root) ==
    [kind |-> "Component", tag |-> <<>>, attributes |-> <<>>,
     children |-> <<root>>, text |-> <<>>]
RawStr(s) ==
    [kind |-> "str", tag |-> <<>>, attributes |-> <<>>, children |-> <<>>, text |-> s]

\* the `content` slot of the node: unset, a string (Text), or child nodes
Unset == [set |-> FALSE, text |-> <<>>, children |-> <<>>]
TextSlot(s) == [set |-> TRUE, text |-> s, children |-> <<>>]
ChildSlot(c) == [set |-> TRUE, text |-> <<>>, children |-> c]

\* the exceptions the element layer raises
ExcTextType  == "TypeError: Text content must be a single string (got type)"
ExcTextArity == "TypeError: Text content must be a single string (got n items)"
ExcTextAttrs == "TypeError: Text content cannot have attributes"
ExcVoidContent == "TypeError: Void elements cannot have content"
ExcGroupAttrs == "TypeError: Element groups cannot have attributes"
ExcListIndex == "IndexError: list index out of range"
ExcStrIndex  == "IndexError: string index out of range"
ExcNoContent == "AttributeError: 'TextElement' object has no attribute 'content'"
ExcNoMinify  == "TypeError: serialise() missing 1 required positional argument: 'minify'"

----------------------------------------------------------------------------
(* serialise *)

\* " " + " ".join(f"{k}={v}" ...) if self.attributes else "" (lines 161-165)
AttrText(attrs) ==
    IF attrs = <<>> THEN <<>>
    ELSE <<" ">> \o Join([i \in 1..Len(attrs) |-> attrs[i].k \o <<"=">> \o attrs[i].v], <<" ">>)

\* textwrap.indent(text, prefix, predicate) with a predicate that does not
\* read the line: every line gets the prefix, or none does
RECURSIVE IndentFrom(_, _, _)
IndentFrom(text, prefix, lineStart) ==
    IF text = <<>> THEN <<>>
    ELSE (IF lineStart THEN prefix ELSE <<>>) \o <<text[1]>>
         \o IndentFrom(Tail(text), prefix, text[1] = "\n")

\* a faulty variant of line 172 with a prefix of two spaces
IndentNarrow(text, prefixed) == IF prefixed THEN IndentFrom(text, <<" ", " ">>, TRUE) ELSE text

\* indent(..., "    ", lambda _: not minify) (lines 168-174)
Indent(text, prefixed) == IF prefixed THEN IndentFrom(text, <<" ", " ", " ", " ">>, TRUE) ELSE text

\* "" if minify else "\n"
Sep(minify) == IF minify THEN <<>> ELSE <<"\n">>

RECURSIVE Serialise(_, _)
\* Container.serialise (lines 156-177)
ContainerSerialise(node, minify) ==
    <<"<">> \o node.tag \o AttrText(node.attributes) \o <<">">>
    \o Sep(minify)
    \o Indent(Join([i \in 1..Len(node.children) |-> Serialise(node.children[i], minify)],
                   Sep(minify)),
              ~minify)
    \o Sep(minify)
    \o <<"<", "/">> \o node.tag \o <<">">>

\* Void.serialise (lines 209-220)
VoidSerialise(node, minify) ==
    <<"<">> \o node.tag \o AttrText(node.attributes) \o <<" ", "/", ">">>

\* ElementGroup.serialise (lines 254-257)
GroupSerialise(node, minify) ==
    Join([i \in 1..Len(node.children) |-> Serialise(node.children[i], minify)],
         Sep(minify))

\* serialise(minify=...) of any node: TextElement (lines 118-120), Component
\* (lines 270-272) and the three above
Serialise(node, minify) ==
    CASE node.kind = "Text"      -> node.text
      [] node.kind = "Container" -> ContainerSerialise(node, minify)
      [] node.kind = "Void"      -> VoidSerialise(node, minify)
      [] node.kind = "Group"     -> GroupSerialise(node, minify)
      [] node.kind = "Component" -> Serialise(node.children[1], minify)

\* serialise() with no argument: the default of the signature is True; the
\* signature of ElementGroup.serialise (line 254) has no default
SerialiseNoFlag(node) ==
    IF node.kind = "Group"
    THEN [exc |-> ExcNoMinify, text |-> <<>>]
    ELSE [exc |-> "none", text |-> Serialise(node, TRUE)]

----------------------------------------------------------------------------
(* set_content and apply_attributes of each shape.  Each gives the         *)
(* exception raised (or "none") and the slot as the call leaves it.        *)

\* TextElement.set_content (lines 122-135).  The message of the first raise
\* reads self.content, which is unset during construction.
TextSetContent(c, slot) ==
    IF c = <<>> THEN [exc |-> ExcListIndex, content |-> slot]
    ELSE IF c[1].kind # "str"
         THEN [exc |-> IF slot.set THEN ExcTextType ELSE ExcNoContent, content |-> slot]
    ELSE IF Len(c) # 1 THEN [exc |-> ExcTextArity, content |-> slot]
    ELSE [exc |-> "none", content |-> TextSlot(c[1].text)]

\* Container.set_content (lines 179-183), ElementGroup.set_content (244-248)
Coerce(c) == [i \in 1..Len(c) |-> IF c[i].kind = "str" THEN TextNode(c[i].text) ELSE c[i]]

ChildrenSetContent(c, slot) == [exc |-> "none", content |-> ChildSlot(Coerce(c))]

\* a faulty variant of lines 222-224 that accepts content
VoidSetContentLax(c, slot) == [exc |-> "none", content |-> slot]

\* Void.set_content (lines 222-224)
VoidSetContent(c, slot) ==
    IF c # <<>> THEN [exc |-> ExcVoidContent, content |-> slot]
    ELSE [exc |-> "none", content |-> slot]

\* TextElement.apply_attributes (lines 137-139), ElementGroup's (250-252)
RejectAttributes(a, e) ==
    IF a # <<>> THEN [exc |-> e, attributes |-> <<>>]
    ELSE [exc |-> "none", attributes |-> <<>>]

\* Container.apply_attributes (lines 185-186), Void.apply_attributes (226-227)
TransformAttributes(a, order) ==
    LET r == Transform(a, order)
    IN  [exc |-> IF r.exc = "IndexError" THEN ExcStrIndex ELSE "none",
         attributes |-> r.result]

\* apply_attributes of a node of shape k
ApplyAttributes(k, a, order) ==
    CASE k = "Text"      -> RejectAttributes(a, ExcTextAttrs)
      [] k = "Group"     -> RejectAttributes(a, ExcGroupAttrs)
      [] k = "Container" -> TransformAttributes(a, order)
      [] k = "Void"      -> TransformAttributes(a, order)

\* the `tag` a Container or Void subclass declares
TagOf(k) ==
    CASE k = "Container" -> <<"d", "i", "v">>
      [] k = "Void"      -> <<"i", "m", "g">>
      [] OTHER           -> <<>>

\* the node as the serialiser sees it
ThisNode ==
    [kind |-> kind, tag |-> TagOf(kind), attributes |-> attributes,
     children |-> content.children, text |-> content.text]

----------------------------------------------------------------------------
(* The mappings transform is called on. *)

KeyChars == {"_", "a", " ", "-"}

\* every key of 1..MaxKeyLen characters over KeyChars
GeneratedKeys == UNION {[1..n -> KeyChars] : n \in 1..MaxKeyLen}

\* one entry under a generated key
KeyInputs == {<<[k |-> key, v |-> StrV(<<"v">>)]>> : key \in GeneratedKeys}

ColourKeys ==
    {<<"c", "o", "l", "o", "r">>, <<"c", "o", "l", "o", "u", "r">>, <<"x", "_", "c", "o", "l", "o", "r">>, <<"x", "_", "c", "o", "l", "o", "u", "r">>, <<"x", "-", "c", "o", "l", "o", "u", "r">>,
     <<"d", "a", "t", "a", "_", "c", "o", "l", "o", "r">>, <<"d", "a", "t", "a", "_", "c", "o", "l", "o", "u", "r">>, <<"d", "a", "t", "a", "-", "c", "o", "l", "o", "r">>, <<"d", "a", "t", "a", "-", "c", "o", "l", "o", "u", "r">>}

\* the value of the i-th entry of a generated mapping: each entry its own
ColourValue(i) == StrV(<<"v", Digits[i + 1]>>)

\* 1..MaxAttrs entries under distinct colour keys
ColourInputs ==
    UNION {{[i \in 1..n |-> [k |-> ks[i], v |-> ColourValue(i)]] :
               ks \in {f \in [1..n -> ColourKeys] :
                          \A i, j \in 1..n : i # j => f[i] # f[j]}} : n \in 1..MaxAttrs}

ClassNames == {<<>>, <<"a">>, <<"b">>}

ClassBases ==
    {<<>>,
     <<[k |-> <<"s", "r", "c">>, v |-> StrV(<<"a", ".", "p", "n", "g">>)]>>,
     <<[k |-> CLASS, v |-> StrV(<<"q">>)]>>,
     <<[k |-> <<"c", "l", "a", "s", "s", "_">>, v |-> StrV(<<"z">>)]>>,
     <<[k |-> CLASS, v |-> StrV(<<"q">>)], [k |-> <<"c", "l", "a", "s", "s", "_">>, v |-> StrV(<<"z">>)]>>}

ClassOptions == {<<>>} \cup {<<[k |-> CLASSES, v |-> SetV(c)]>> : c \in SUBSET ClassNames}

StyleOptions ==
    {<<>>} \cup
    {<<[k |-> STYLE, v |-> s]>> :
        s \in {StrV(<<>>), StrV(<<"x", ":", "y">>), DictV(<<>>),
               DictV(<<<<<<"c", "o", "l", "o", "r">>, <<"r", "e", "d">>>>>>),
               DictV(<<<<<<"c", "o", "l", "o", "r">>, <<"r", "e", "d">>>>, <<<<"f", "o", "n", "t", "-", "s", "i", "z", "e">>, <<"1", "2", "p", "x">>>>>>)}}

\* a base mapping, with or without `classes`, with or without `style`
ClassInputs == {b \o c \o s : b \in ClassBases, c \in ClassOptions, s \in StyleOptions}

PlainValues ==
    {StrV(<<"a", ".", "p", "n", "g">>), StrV(<<"t", "r", "u", "e">>), StrV(<<"a", "\"", "b">>), StrV(<<"a", "\\", "b">>), StrV(<<>>),
     IntV(1), IntV(12), BoolV(TRUE), BoolV(FALSE), NoneV,
     ListV(<<<<"a">>>>), ListV(<<<<"a">>, <<"b", "\"", "c">>>>)}

ValueInputs == {<<[k |-> <<"a", "r", "i", "a", "_", "h", "i", "d", "d", "e", "n">>, v |-> v]>> : v \in PlainValues}

AttrInputs == KeyInputs \cup ColourInputs \cup ClassInputs \cup ValueInputs

----------------------------------------------------------------------------
(* A direct call of transform on a mapping the caller keeps. *)

CallTransform ==
    /\ tpc = "ready"
    /\ \E a \in AttrInputs : \E o \in ClassOrders(a) :
          LET r == Transform(a, o)
          IN  /\ tIn' = a
              /\ tAfter' = r.attributes
              /\ tResult' = r.result
              /\ tExc' = r.exc
    /\ tpc' = "done"
    /\ UNCHANGED nvars

----------------------------------------------------------------------------
(* Construction, reset and serialisation of one node. *)

\* the shapes a node is constructed as
Kinds == {"Text", "Container", "Void", "Group"}

\* the items of a content sequence: raw strings and elements
Items ==
    {RawStr(<<"h", "i">>), RawStr(<<>>), VoidNode(<<"b", "r">>, <<>>),
     ComponentNode(GroupNode(<<TextNode(<<"a">>), TextNode(<<"b">>)>>))}

ContentInputs == UNION {[1..n -> Items] : n \in 0..MaxContent}

\* the keyword arguments of a construction
NodeAttrInputs ==
    {<<>>,
     <<[k |-> <<"s", "r", "c">>, v |-> StrV(<<"a", ".", "p", "n", "g">>)]>>,
     <<[k |-> <<"s", "r", "c">>, v |-> StrV(<<"a", "\"", "b">>)]>>,
     <<[k |-> <<"a", "r", "i", "a", "_", "h", "i", "d", "d", "e", "n">>, v |-> BoolV(TRUE)], [k |-> CLASSES, v |-> SetV({<<>>, <<"a">>})]>>,
     <<[k |-> <<"_">>, v |-> StrV(<<"v">>)]>>}

\* set_content of a node of shape k
SetContent(k, c, slot) ==
    CASE k = "Text"      -> TextSetContent(c, slot)
      [] k = "Container" -> ChildrenSetContent(c, slot)
      [] k = "Group"     -> ChildrenSetContent(c, slot)
      [] k = "Void"      -> VoidSetContent(c, slot)

\* Element.__init__, line 89: self.apply_attributes(attributes)
InitApply(k, a, c) ==
    /\ pc = "none"
    /\ kind = "none"
    /\ \E o \in ClassOrders(a) :
          LET r == ApplyAttributes(k, a, o)
          IN  /\ attributes' = r.attributes
              /\ exc' = r.exc
              /\ pc' = IF r.exc = "none" THEN "applied" ELSE "none"
    /\ kind' = k
    /\ kwargs' = a
    /\ args' = c
    /\ content' = Unset
    /\ applyCount' = 1
    /\ setCount' = 0
    /\ last' = [op |-> "init", text |-> <<>>]
    /\ UNCHANGED tvars

\* Element.__init__, line 90: self.set_content(list(content))
InitSetContent ==
    /\ pc = "applied"
    /\ LET r == SetContent(kind, args, content)
       IN  /\ content' = r.content
           /\ exc' = r.exc
           /\ pc' = IF r.exc = "none" THEN "bound" ELSE "none"
    /\ setCount' = setCount + 1
    /\ last' = [op |-> "init", text |-> <<>>]
    /\ UNCHANGED <<kind, kwargs, args, attributes, applyCount>>
    /\ UNCHANGED tvars

\* a faulty variant of lines 92-94 that applies attributes again
CallReapplying(c) ==
    /\ pc = "bound"
    /\ setCount <= MaxCalls
    /\ LET r == SetContent(kind, c, content)
       IN  /\ content' = r.content
           /\ exc' = r.exc
    /\ args' = c
    /\ applyCount' = applyCount + 1
    /\ setCount' = setCount + 1
    /\ last' = [op |-> "call", text |-> <<>>]
    /\ UNCHANGED <<pc, kind, kwargs, attributes>>
    /\ UNCHANGED tvars

\* Element.__call__ (lines 92-94): self.set_content(list(content))
Call(c) ==
    /\ pc = "bound"
    /\ setCount <= MaxCalls
    /\ LET r == SetContent(kind, c, content)
       IN  /\ content' = r.content
           /\ exc' = r.exc
    /\ args' = c
    /\ setCount' = setCount + 1
    /\ last' = [op |-> "call", text |-> <<>>]
    /\ UNCHANGED <<pc, kind, kwargs, attributes, applyCount>>
    /\ UNCHANGED tvars

\* node.serialise(minify=minify)
SerialiseCall(minify) ==
    /\ pc = "bound"
    /\ last' = [op |-> IF minify THEN "serialise(True)" ELSE "serialise(False)",
                text |-> Serialise(ThisNode, minify)]
    /\ exc' = "none"
    /\ UNCHANGED <<pc, kind, kwargs, args, attributes, content, applyCount, setCount>>
    /\ UNCHANGED tvars

\* node.serialise()
SerialiseDefault ==
    /\ pc = "bound"
    /\ LET r == SerialiseNoFlag(ThisNode)
       IN  /\ last' = [op |-> "serialise()", text |-> r.text]
           /\ exc' = r.exc
    /\ UNCHANGED <<pc, kind, kwargs, args, attributes, content, applyCount, setCount>>
    /\ UNCHANGED tvars

TInit ==
    /\ tpc = "ready"
    /\ tIn = <<>>
    /\ tAfter = <<>>
    /\ tResult = <<>>
    /\ tExc = "none"

NInit ==
    /\ pc = "none"
    /\ kind = "none"
    /\ kwargs = <<>>
    /\ args = <<>>
    /\ attributes = <<>>
    /\ content = Unset
    /\ exc = "none"
    /\ applyCount = 0
    /\ setCount = 0
    /\ last = [op |-> "none", text |-> <<>>]

Init == TInit /\ NInit

Next ==
    \/ \E k \in Kinds, a \in NodeAttrInputs, c \in ContentInputs : InitApply(k, a, c)
    \/ InitSetContent
    \/ \E c \in ContentInputs : Call(c)
    \/ \E m \in BOOLEAN : SerialiseCall(m)
    \/ SerialiseDefault

Spec == Init /\ [][Next]_vars

TNext == CallTransform

SpecTransform == Init /\ [][TNext]_vars

----------------------------------------------------------------------------
(* Properties of transform, checked under SpecTransform. *)

\* s ends with p
EndsWith(s, p) == Len(s) >= Len(p) /\ SubSeq(s, Len(s) - Len(p) + 1, Len(s)) = p

\* whether character c occurs in s
Contains(s, c) == \E i \in 1..Len(s) : s[i] = c

\* s.count(c) for a single character
RECURSIVE Count(_, _)
Count(s, c) ==
    IF s = <<>> THEN 0 ELSE (IF s[1] = c THEN 1 ELSE 0) + Count(Tail(s), c)

\* the call has returned a mapping
Returned == tpc = "done" /\ tExc = "none"

\* the names of the `classes` set of the input, "" removed
RemainingClasses == Get(tIn, CLASSES).c \ {<<>>}

\* the input's only class-related entry is `classes`
OnlyClasses == HasKey(tIn, CLASSES) /\ ~HasKey(tIn, CLASS) /\ ~HasKey(tIn, <<"c", "l", "a", "s", "s", "_">>)

\* C1: for a mapping with a `classes` entry, the result has a `class` key
\* if and only if the set without "" is non-empty, its value is then the
\* JSON-quoted space-joined remaining names in some order, and `classes`
\* is never a key of the result.
C1_ClassIffRemaining ==
    (Returned /\ OnlyClasses) =>
        /\ HasKey(tResult, CLASS) <=> (RemainingClasses # {})
        /\ HasKey(tResult, CLASS) =>
              \E o \in Orders(RemainingClasses) :
                  Get(tResult, CLASS) = JsonDumpsStr(Join(o, <<" ">>))
        /\ ~HasKey(tResult, CLASSES)

\* the key the documentation promises for `key`: a single trailing `_` is
\* dropped, then each `__` is a literal `_`, each other `_` a `-`
RECURSIVE PromisedScan(_)
PromisedScan(key) ==
    IF key = <<>> THEN <<>>
    ELSE IF Len(key) >= 2 /\ key[1] = "_" /\ key[2] = "_"
         THEN <<"_">> \o PromisedScan(SubSeq(key, 3, Len(key)))
    ELSE IF key[1] = "_" THEN <<"-">> \o PromisedScan(Tail(key))
    ELSE <<key[1]>> \o PromisedScan(Tail(key))

PromisedKey(key) ==
    PromisedScan(IF key[Len(key)] = "_" /\ (Len(key) = 1 \/ key[Len(key) - 1] # "_")
                 THEN SubSeq(key, 1, Len(key) - 1)
                 ELSE key)

\* C4: for every non-empty key, transform succeeds and stores the entry
\* under the key with each `__` turned into `_`, each other `_` into `-`,
\* a single trailing `_` dropped and every other character unchanged.
C4_KeyConversion ==
    (tpc = "done" /\ tIn \in KeyInputs) =>
        /\ tExc = "none"
        /\ Keys(tResult) = {PromisedKey(tIn[1].k)}

\* the entries of a mapping under keys other than `classes`, `style`, `class`
RECURSIVE Ordinary(_)
Ordinary(d) ==
    IF d = <<>> THEN <<>>
    ELSE IF d[1].k \in {CLASSES, STYLE, CLASS} THEN Ordinary(Tail(d))
    ELSE <<d[1]>> \o Ordinary(Tail(d))

\* C10 as stated: after the call the input mapping has exactly the keys and
\* values it had before the call.
C10_InputUntouched == tpc = "done" => tAfter = tIn

\* C10 as amended: the input is changed by class and style normalisation
\* only.  A mapping with neither `classes` nor `style` is left as it was;
\* otherwise `classes` is removed, `style` is removed or turned into its
\* text, `class` is set only from a non-empty `classes`, and every other
\* entry keeps its key, value and place.
C10_OnlyNormalised ==
    tpc = "done" =>
        /\ (~HasKey(tIn, CLASSES) /\ ~HasKey(tIn, STYLE)) => tAfter = tIn
        /\ Ordinary(tAfter) = Ordinary(tIn)
        /\ ~HasKey(tAfter, CLASSES)
        /\ HasKey(tAfter, STYLE) => Get(tAfter, STYLE).t = "str"
        /\ HasKey(tAfter, STYLE) <=> (HasKey(tIn, STYLE) /\ Truthy(Get(tIn, STYLE)))
        /\ IF HasKey(tIn, CLASSES) /\ Get(tIn, CLASSES).c # {}
           THEN /\ HasKey(tAfter, CLASS)
                /\ \E o \in Orders(RemainingClasses) :
                      Get(tAfter, CLASS) = StrV(Join(o, <<" ">>))
           ELSE HasKey(tAfter, CLASS) <=> HasKey(tIn, CLASS)

\* a call on a mapping with both `classes` and a dict `style` has changed it
C10_Witness ==
    /\ tpc = "done"
    /\ HasKey(tIn, CLASSES) /\ HasKey(tIn, STYLE) /\ Get(tIn, STYLE).t = "dict"
    /\ HasKey(tIn, <<"s", "r", "c">>)
    /\ tAfter # tIn
    /\ HasKey(tAfter, STYLE)
    /\ Get(tAfter, STYLE) = StrV(<<"c", "o", "l", "o", "r", ":", "r", "e", "d", ";", "f", "o", "n", "t", "-", "s", "i", "z", "e", ":", "1", "2", "p", "x">>)

\* the pairs <<k, k2>> of distinct keys of the input where k does not start
\* with `data-` and k2 is k with `color` respelled `colour`
ColourPairs ==
    {p \in Keys(tIn) \X Keys(tIn) :
        /\ ~StartsWith(p[1], DATA)
        /\ p[2] = Replace(p[1], COLOR, COLOUR)
        /\ p[2] # p[1]}

\* the text the value of the input's entry under key k is printed as
Printed(k) == JsonDumpsStr(Replace(Get(tIn, k).s, <<"\"">>, <<"&", "q", "u", "o", "t", ";">>))

\* the value under key k is printed as the value of no other entry is
ValueApart(k) == \A j \in Keys(tIn) \ {k} : Printed(j) # Printed(k)

\* C3 as stated: where k and its `colour` spelling are both present, the
\* result holds the value of the colour-spelled key under a key ending in
\* `-color`, and does not hold the value of the color-spelled key.
C3_StoredUnderColor ==
    Returned =>
        \A p \in ColourPairs :
            /\ \E i \in 1..Len(tResult) :
                  /\ tResult[i].v = Printed(p[2])
                  /\ EndsWith(tResult[i].k, <<"-", "c", "o", "l", "o", "r">>)
            /\ ValueApart(p[1]) =>
                  \A i \in 1..Len(tResult) : tResult[i].v # Printed(p[1])

\* no entry other than the pair is stored under the key k2 is stored under
AloneUnder(p) ==
    \A j \in Keys(tIn) \ {p[1], p[2]} : OutputKey(j) # OutputKey(p[2])

\* the key the entry of k2 is stored under: k2 with its underscores
\* converted, and `colour` respelled `color` unless that key starts with
\* `data-`
Respelled(k2) ==
    LET converted == ConvertUnderscores(StripTrailing(k2))
    IN  IF StartsWith(converted, DATA) THEN converted
        ELSE Replace(converted, COLOUR, COLOR)

\* C3 as amended: where k and its `colour` spelling k2 are both present, the
\* entry of k is dropped and the value of k2 is stored under the converted
\* key of k2 respelled `color`, which for a key ending in `colour` ends in
\* `color`; unless the converted key starts with `data-`, which keeps the
\* spelling `colour` (data_colour is stored as data-colour); and unless
\* another entry of the mapping is stored under the same key.
C3_ColourWins ==
    Returned =>
        \A p \in ColourPairs :
            /\ \E i \in 1..Len(tResult) :
                  /\ tResult[i].k = Respelled(p[2])
                  /\ EndsWith(p[2], COLOUR) =>
                        IF StartsWith(tResult[i].k, DATA)
                        THEN EndsWith(tResult[i].k, COLOUR)
                        ELSE EndsWith(tResult[i].k, COLOR)
                  /\ AloneUnder(p) => tResult[i].v = Printed(p[2])
            /\ ValueApart(p[1]) =>
                  \A i \in 1..Len(tResult) : tResult[i].v # Printed(p[1])

\* the call was on data_color = "v1" together with data_colour = "v2", and
\* returned the single entry data-colour = "v2"
C3_Witness ==
    /\ Returned
    /\ tIn = <<[k |-> <<"d", "a", "t", "a", "_", "c", "o", "l", "o", "r">>, v |-> StrV(<<"v", "1">>)],
               [k |-> <<"d", "a", "t", "a", "_", "c", "o", "l", "o", "u", "r">>, v |-> StrV(<<"v", "2">>)]>>
    /\ tResult = <<[k |-> <<"d", "a", "t", "a", "-", "c", "o", "l", "o", "u", "r">>, v |-> <<"\"", "v", "2", "\"">>]>>

----------------------------------------------------------------------------
(* Properties of the nodes, checked under Spec. *)

\* the last operation was a serialise call with an explicit flag
Serialised == pc = "bound" /\ last.op \in {"serialise(True)", "serialise(False)"}

\* a string with no character that the value encoding rewrites
PlainText(v) == ~Contains(v, "\"") /\ ~Contains(v, "\\") /\ ~Contains(v, "\n")

\* the node is a Void constructed with the one string attribute src
VoidWithSrc ==
    /\ kind = "Void"
    /\ Len(kwargs) = 1
    /\ kwargs[1].k = <<"s", "r", "c">>
    /\ kwargs[1].v.t = "str"

\* C2 as stated: a Void with a string attribute k = v serialises, in both
\* modes, v as "&quot;v&quot;": the img with src = a.png gives exactly
\* <img src="&quot;a.png&quot;" />.
C2_QuotEntities ==
    (Serialised /\ VoidWithSrc /\ PlainText(kwargs[1].v.s)) =>
        last.text = <<"<", "i", "m", "g", " ", "s", "r", "c", "=", "\"", "&", "q", "u", "o", "t", ";">> \o kwargs[1].v.s \o <<"&", "q", "u", "o", "t", ";", "\"", " ", "/", ">">>

\* C2 as amended: a Void with a string attribute k = v serialises, in both
\* modes, v between one pair of double quotes, with each double quote of v
\* itself written &quot;: the img with src = a.png gives exactly
\* <img src="a.png" />, and src = a"b gives <img src="a&quot;b" />.
C2_JsonQuoted ==
    (Serialised /\ VoidWithSrc) =>
        /\ PlainText(kwargs[1].v.s) =>
              last.text = <<"<", "i", "m", "g", " ", "s", "r", "c", "=", "\"">> \o kwargs[1].v.s \o <<"\"", " ", "/", ">">>
        /\ kwargs[1].v.s = <<"a", ".", "p", "n", "g">> => last.text = <<"<", "i", "m", "g", " ", "s", "r", "c", "=", "\"", "a", ".", "p", "n", "g", "\"", " ", "/", ">">>
        /\ kwargs[1].v.s = <<"a", "\"", "b">> => last.text = <<"<", "i", "m", "g", " ", "s", "r", "c", "=", "\"", "a", "&", "q", "u", "o", "t", ";", "b", "\"", " ", "/", ">">>

\* the img with src = a.png has been serialised unminified
C2_Witness ==
    /\ Serialised /\ VoidWithSrc
    /\ last.op = "serialise(False)"
    /\ kwargs[1].v.s = <<"a", ".", "p", "n", "g">>
    /\ last.text = <<"<", "i", "m", "g", " ", "s", "r", "c", "=", "\"", "a", ".", "p", "n", "g", "\"", " ", "/", ">">>

\* the lines of a text: the pieces between its newline characters
RECURSIVE Lines(_, _)
Lines(text, line) ==
    IF text = <<>> THEN <<line>>
    ELSE IF text[1] = "\n" THEN <<line>> \o Lines(Tail(text), <<>>)
    ELSE Lines(Tail(text), Append(line, text[1]))

\* a child that serialises to one line: a Void, or a Text of one line
SingleLine(node) ==
    \/ node.kind = "Void"
    \/ node.kind = "Text" /\ node.text # <<>> /\ ~Contains(node.text, "\n")

\* the node is a Container whose children are all single-line
FlatContainer ==
    /\ kind = "Container"
    /\ \A i \in 1..Len(content.children) : SingleLine(content.children[i])

\* every child line is the child's own text behind exactly four spaces (the
\* tag line of the node is not indented)
ChildLinesIndented ==
    LET lines == Lines(last.text, <<>>)
        n == Len(content.children)
    IN  /\ Len(lines) >= n + 2
        /\ \A i \in 1..n :
              lines[i + 1] = <<" ", " ", " ", " ">> \o Serialise(content.children[i], FALSE)

\* C5 as stated: a Container with n >= 0 single-line children has no
\* newline in its minified text and exactly n + 1 newlines in its pretty
\* text, every child line indented by exactly four spaces.
C5_NewlinesNPlusOne ==
    (Serialised /\ FlatContainer) =>
        IF last.op = "serialise(True)"
        THEN Count(last.text, "\n") = 0
        ELSE /\ Count(last.text, "\n") = Len(content.children) + 1
             /\ ChildLinesIndented

\* C5 as amended: as stated for n >= 1; a Container with no children has
\* exactly two newlines in its pretty text (the one after the open tag and
\* the one before the close tag).
C5_NewlinesOpenClose ==
    (Serialised /\ FlatContainer) =>
        IF last.op = "serialise(True)"
        THEN Count(last.text, "\n") = 0
        ELSE /\ Count(last.text, "\n") =
                   IF content.children = <<>> THEN 2 ELSE Len(content.children) + 1
             /\ ChildLinesIndented

\* a Container with two single-line children has been serialised unminified
C5_Witness ==
    /\ Serialised /\ FlatContainer
    /\ last.op = "serialise(False)"
    /\ Len(content.children) = 2
    /\ kwargs = <<>>
    /\ last.text = <<"<", "d", "i", "v", ">", "\n", " ", " ", " ", " ", "h", "i", "\n", " ", " ", " ", " ", "<", "b", "r", " ", "/", ">", "\n", "<", "/", "d", "i", "v", ">">>

\* the last operation ran set_content on the node
SetContentRan == last.op \in {"init", "call"} /\ setCount >= 1

\* C6: constructing or resetting a Text node with no item, with more than
\* one item, or with one item that is not a string fails with the TypeError
\* "Text content must be a single string ..."; with exactly one string it
\* succeeds and stores that string.
C6_TextArityError ==
    (kind = "Text" /\ SetContentRan) =>
        IF Len(args) = 1 /\ args[1].kind = "str"
        THEN exc = "none" /\ content = TextSlot(args[1].text)
        ELSE exc \in {ExcTextType, ExcTextArity}

\* C7: for every node shape, serialise with no flag succeeds and returns
\* the text of serialise(minify=true).
C7_DefaultMinified ==
    (pc = "bound" /\ last.op = "serialise()") =>
        exc = "none" /\ last.text = Serialise(ThisNode, TRUE)

\* the exceptions only apply_attributes raises
ApplyErrors == {ExcTextAttrs, ExcGroupAttrs, ExcStrIndex}

\* C8: apply_attributes runs exactly once per node and before the first
\* set_content; a reset runs set_content only; content is never bound on a
\* node whose attributes are not applied; when apply_attributes fails,
\* set_content is not run and no node results.
C8_ApplyOnceFirst ==
    /\ applyCount <= 1
    /\ pc \in {"applied", "bound"} => applyCount = 1
    /\ setCount >= 1 => applyCount = 1
    /\ content.set => (applyCount = 1 /\ setCount >= 1)
    /\ pc = "applied" => (setCount = 0 /\ ~content.set)
    /\ last.op = "call" => (applyCount = 1 /\ setCount >= 2 /\ pc = "bound")
    /\ exc \in ApplyErrors => (setCount = 0 /\ pc = "none" /\ ~content.set)

\* a node has been constructed and reset twice
C8_Witness ==
    /\ pc = "bound" /\ last.op = "call" /\ setCount = 3 /\ applyCount = 1
    /\ kind = "Container" /\ content.set /\ kwargs # <<>>

\* C9, the states: a Void node never holds content, and a construction or
\* reset of a Void fails with "Void elements cannot have content" exactly
\* when its content sequence is not empty.
VoidHoldsNothing ==
    kind = "Void" =>
        /\ ~content.set /\ content.children = <<>>
        /\ SetContentRan => (exc = ExcVoidContent <=> args # <<>>)

\* C9, the steps: a failed reset of a Void leaves its attributes and its
\* serialised text as they were.
VoidResetKeeps ==
    (kind = "Void" /\ pc = "bound" /\ exc' = ExcVoidContent) =>
        /\ attributes' = attributes
        /\ pc' = "bound"
        /\ Serialise(ThisNode, TRUE)' = Serialise(ThisNode, TRUE)
        /\ Serialise(ThisNode, FALSE)' = Serialise(ThisNode, FALSE)

\* C9: after any construction and resets a Void holds no content; every
\* construction or reset with content fails with the content-not-allowed
\* error, and a failed reset leaves attributes and serialised text unchanged.
C9_VoidNoContent == [](VoidHoldsNothing) /\ [][VoidResetKeeps]_vars

\* a reset of a Void with content has failed and the node is still there
C9_Witness ==
    /\ kind = "Void" /\ pc = "bound" /\ last.op = "call"
    /\ exc = ExcVoidContent /\ args # <<>>
    /\ attributes # <<>>

============================================================================
